---- MODULE Spec2Model ----
(***************************************************************************)
(* Model of the MCP server manager (src/src/frontend/src/App.js, lines     *)
(* 95-537: command channel, supervisor, observers, request router) and of  *)
(* the CRUD routes of the backend that write the same persisted            *)
(* ServerRecord (src/src/backend/routes/servers.js, src/unnamed/part_001). *)
(*                                                                         *)
(* Every handler of the manager is an async function.  It runs without     *)
(* interruption up to its next `await`; each await is a round trip to the  *)
(* store.  One action of the model is one such uninterrupted segment: the  *)
(* store operation the segment was waiting for takes effect, and then the  *)
(* code that follows it runs up to the next await.  A store operation may  *)
(* fail (the promise rejects): every such action takes the outcome `ok`.   *)
(***************************************************************************)
EXTENDS Integers, Sequences, FiniteSets, TLC

\* ------------------------------------------------------------------ bounds
MaxCmds == 3      \* commands and CRUD requests received in one run
MaxRequests == 4  \* requests of any kind received in one run: the router
                  \* takes requests when the other handlers no longer do

\* ------------------------------------------------------------ the domains
\* The serverId a command carries: the _id of the record, or a string that
\* is not the spelling of an ObjectId and so the _id of no record.
ServerIds == {"s1", "unknown-id"}
Conns == {"c1", "c2"}
NoProc == 0
NoCode == -1

\* The record shapes the manager can meet: <<type, config.allowedDirectories>>.
\* The type is a plain String in the manager's schema, so a type outside the
\* four launchers can be loaded ("other").  "bad" is a config the filesystem
\* launcher cannot read (config null, or allowedDirectories not iterable).
RecordShapes ==
  { <<"filesystem", "unset">>, <<"filesystem", "bad">>,
    <<"brave-search", "unset">>, <<"github", "unset">>,
    <<"custom", "unset">>, <<"other", "unset">> }

VARIABLES
  store,           \* the persisted ServerRecord of each identity
  runningServers,  \* the Registry: identity -> process handle (NoProc: no key)
  procs,           \* every child process spawned so far, with its observer
  cmds,            \* the commands in flight, in order of receipt
  out,             \* the last message sent on the command channel
  received,        \* the number of commands and route requests received
  sent,            \* the number of messages sent on the command channel
  closed,          \* the connections the manager has closed
  routes,          \* the requests to the router in flight
  res,             \* the last HTTP response (of the router or of a CRUD route)
  listed,          \* the number of ids in user.servers of the owner
  created,         \* the number of records POST /api/servers has created
  posts,           \* the POST /api/servers requests in flight
  apiRequestCount, \* the stored apiRequestCount of the owner's User document
  limited          \* the requests the rate limiter has taken, with the
                   \* User document each of them loaded

\* The state the creation route works on.
creation == <<listed, created, posts>>

\* The state the rate limiter works on.
limiter == <<apiRequestCount, limited>>

vars == <<store, runningServers, procs, cmds, out, received, sent, closed,
          routes, res, listed, created, posts, apiRequestCount, limited>>

\* --------------------------------------------------------------- replies
\* The JSON object ws.send writes on connection c.
Reply(c, success, message) ==
  [conn |-> c, success |-> success, message |-> message, status |-> ""]

\* The reply of getServerStatus: status is computed from the Registry alone;
\* of the record it carries id, name, type, requestCount and lastActivity
\* (requestCount stands for the two fields the router updates together).
StatusReply(c, isRunning, server) ==
  [conn |-> c, success |-> TRUE, message |-> "",
   status |-> IF isRunning THEN "running" ELSE "stopped",
   requestCount |-> server.requestCount]

\* ------------------------------------------------------------ the launchers
\* An environment maps the names it defines to their values.  process.env of
\* the manager defines PATH and, as it may, a name that a credential of a
\* record has too.
EmptyEnv == [n \in {} |-> ""]

BaseEnv == [n \in {"PATH", "n1"} |-> "base"]

\* {...a, ...b}: the properties of a, then those of b over them.
Merge(a, b) ==
  [n \in (DOMAIN a) \cup (DOMAIN b) |-> IF n \in DOMAIN b THEN b[n] ELSE a[n]]

\* `server.config.allowedDirectories || ['/tmp']`: the default stands in for
\* a value that is falsy; an array, empty or not, is truthy.
allowedDirs(server) ==
  IF server.cfg = "set" THEN server.roots ELSE <<"/tmp">>

\* The argument list and the environment a launcher that reaches spawn()
\* hands over: startFilesystemServer is the one that does, with the fixed
\* arguments, then the roots, and no options, so that the child gets
\* process.env.
spawnArgs(server) ==
  <<"-y", "@modelcontextprotocol/server-filesystem">> \o allowedDirs(server)

spawnEnv(server) == BaseEnv

\* spawn() returns a handle whether or not the binary can be executed: a
\* failed exec is reported later by the handle's error event.
SpawnOutcomes == {"spawned", "spawnerror"}

\* `const process = spawn(.., {env: {...process.env, ..}})`: the initializer
\* reads the const it is initializing, which throws a ReferenceError.
startBraveSearchServer(server) == {"throw"}

startGithubServer(server) == {"throw"}

\* spawn() itself throws for the errors it does not report by the error
\* event, and setupProcessHandlers throws on a handle without stdout.
startFilesystemServer(server) ==
  IF server.cfg \in {"bad", "empty"} THEN {"throw"}
  ELSE SpawnOutcomes \cup {"throw"}

startCustomServer(server) == {"throw"}

\* The switch on server.type of startServer.
LaunchOutcomes(server) ==
  CASE server.type = "brave-search" -> startBraveSearchServer(server)
    [] server.type = "github" -> startGithubServer(server)
    [] server.type = "filesystem" -> startFilesystemServer(server)
    [] server.type = "custom" -> startCustomServer(server)
    [] OTHER -> {"unsupported"}

\* ------------------------------------------------------------- responses
\* res.status(code).json(..) of an HTTP handler; 0: no response yet.
Response(code) == [code |-> code]

\* ------------------------------------------------------------- the store
\* The owner, the server key and the endpoint of a record are set when the
\* record is created (POST /api/servers) and never written again.  The
\* endpoint is https://host/mcp/<owner>/<uuidv4()>, written here as the
\* sequence of its pieces; the uuid is not the _id of the record.
Owner(s) == "u1"

ServerKey(s) == "k1"

Endpoint(s) == <<"mcp", Owner(s), "e", "7">>

\* The users a request names: the owner of the record, another user, and a
\* string that is not the spelling of an ObjectId.
UserIds == {"u1", "u2", "bad-id"}

\* The credentials of a record: apiKeys maps a name to a stored value.  A
\* value is a plaintext under `layers` encryptions; Unset: no such name.
KeyNames == {"n1", "n2"}
Plaintexts == {"a", "b"}
Unset == [plain |-> "", layers |-> -1]

\* crypto.AES.encrypt(value, key).toString(): a ciphertext of its argument,
\* whatever the argument is.
Encrypt(v) == [v EXCEPT !.layers = @ + 1]

\* crypto.AES.decrypt(value, key).toString(Utf8): undoes one encryption; of
\* a value that is not a ciphertext it yields the empty string.
Decrypt(v) ==
  IF v.layers > 0 THEN [v EXCEPT !.layers = @ - 1] ELSE [plain |-> "", layers |-> 0]

\* Server.findById casts its argument to an ObjectId before it asks the
\* store: a string that cannot be cast rejects the query with a CastError.
Castable(sid) == sid # "unknown-id"

\* findById(sid) resolves (with the record or with null) when the store
\* answers and the id can be cast; otherwise it rejects.
Resolves(sid, ok) == ok /\ Castable(sid)

\* Mongoose's save() of a loaded document writes the paths that were
\* modified: assigning the value the document already has writes nothing.
ModifiedStatus(loaded, new) == IF loaded = new THEN "none" ELSE new

\* The status a save() writes: the modified status, when the save succeeds
\* and the record still exists.
Wrote(sid, w, ok) ==
  IF ok /\ w # "none" /\ store[sid].exists THEN w ELSE "none"

SaveStatus(sid, w, ok) ==
  IF Wrote(sid, w, ok) # "none" THEN [store EXCEPT ![sid].status = w] ELSE store

\* getDecryptedApiKey of the manager: '' for a name that is not set; for a
\* name that is set, `crypto.AES.decrypt(..)` with crypto the module of Node
\* (App.js:102), which has no AES: the call throws a TypeError inside the
\* try and the catch returns ''.
getDecryptedApiKey(server, key) ==
  IF server.apiKeys[key] = Unset
  THEN [plain |-> "", layers |-> 0]
  ELSE [plain |-> "", layers |-> 0]

\* The decryptedKeys startCustomServer collects for the environment of the
\* child: one entry for each name of server.apiKeys.
decryptedKeys(server) ==
  [n \in {k \in KeyNames : server.apiKeys[k] # Unset} |->
     getDecryptedApiKey(server, n)]

\* ------------------------------------------------------------------ Init
\* Everything but the records: an empty Registry, nothing in flight.
InitRest ==
  /\ runningServers = [s \in ServerIds |-> NoProc]
  /\ procs = << >>
  /\ cmds = << >>
  /\ out = Reply("none", FALSE, "")
  /\ received = 0
  /\ sent = 0
  /\ closed = {}
  /\ routes = << >>
  /\ res = Response(0)
  /\ listed = Cardinality({s \in ServerIds : Castable(s)})
  /\ created = 0
  /\ posts = << >>
  /\ apiRequestCount = 0
  /\ limited = << >>

\* A record the CRUD boundary created (status creating), an empty Registry.
Init ==
  /\ \E sh \in RecordShapes :
       store = [s \in ServerIds |->
                  [exists |-> Castable(s), type |-> sh[1], cfg |-> sh[2],
                   roots |-> << >>, env |-> EmptyEnv,
                   status |-> "creating", requestCount |-> 0,
                   apiKeys |-> [n \in KeyNames |-> Unset]]]
  /\ InitRest

\* The records a launcher can be given: config.allowedDirectories unset, a
\* list of roots (cfg "set", the list in roots) or unreadable; for a custom
\* record the environment config declares and the credentials stored, each
\* the encryption of a plaintext.
\* cfg "empty" is the record created with config {} (the default of POST
\* /api/servers): save() of the backend leaves an empty object out of the
\* stored document (schema option minimize), and the schema of the manager
\* gives config no default, so that the manager loads server.config as
\* undefined and the read of server.config.allowedDirectories throws.
RootLists == { << >>, <<"/data">>, <<"/data", "/home">> }

ConfigEnvs ==
  { EmptyEnv, [n \in {"PATH"} |-> "config"],
    [n \in {"PATH", "n1"} |-> "config"] }

StoredKeys ==
  { [n \in KeyNames |-> Unset],
    [n \in KeyNames |-> IF n = "n1" THEN Encrypt([plain |-> "a", layers |-> 0])
                        ELSE Unset],
    [n \in KeyNames |-> IF n = "n1" THEN Encrypt([plain |-> "a", layers |-> 0])
                        ELSE Encrypt([plain |-> "b", layers |-> 0])] }

LauncherRecords ==
  { [type |-> "filesystem", cfg |-> c, roots |-> << >>, env |-> EmptyEnv,
     apiKeys |-> [n \in KeyNames |-> Unset]] :
       c \in {"unset", "empty", "bad"} }
  \cup
  { [type |-> "filesystem", cfg |-> "set", roots |-> r, env |-> EmptyEnv,
     apiKeys |-> [n \in KeyNames |-> Unset]] : r \in RootLists }
  \cup
  { [type |-> "custom", cfg |-> "unset", roots |-> << >>, env |-> e,
     apiKeys |-> k] : e \in ConfigEnvs, k \in StoredKeys }

\* A record of any of these shapes, created by the CRUD boundary.
LauncherInit ==
  /\ \E r \in LauncherRecords :
       store = [s \in ServerIds |->
                  [exists |-> Castable(s), type |-> r.type, cfg |-> r.cfg,
                   roots |-> r.roots, env |-> r.env,
                   status |-> "creating", requestCount |-> 0,
                   apiKeys |-> r.apiKeys]]
  /\ InitRest

\* ------------------------------------------------------- command channel
CmdIds == 1..Len(cmds)
ProcIds == 1..Len(procs)

RemoveAt(s, i) == SubSeq(s, 1, i - 1) \o SubSeq(s, i + 1, Len(s))

\* ws.send of the reply of command i, which ends the command.
Finish(i, success, message) ==
  /\ out' = Reply(cmds[i].conn, success, message)
  /\ sent' = sent + 1
  /\ cmds' = RemoveAt(cmds, i)

\* ws.on('message') with no catch around JSON.parse and the dispatch.
ReceiveNoCatch(c, kind, sid) ==
  /\ received < MaxCmds
  /\ received' = received + 1
  /\ c \notin closed
  /\ CASE kind \in {"start", "stop", "status"} ->
            /\ cmds' = Append(cmds, [conn |-> c, kind |-> kind, sid |-> sid,
                                     pc |-> "load", w |-> "none", proc |-> NoProc])
            /\ UNCHANGED <<out, sent>>
       [] kind = "unknown" ->
            /\ out' = Reply(c, FALSE, "Unknown command")
            /\ sent' = sent + 1
            /\ cmds' = cmds
       [] OTHER ->
            /\ UNCHANGED <<out, sent, cmds>>
  /\ UNCHANGED <<store, runningServers, procs, closed, routes, res, creation, limiter>>

\* ws.on('message') with no default branch in the switch on data.command.
ReceiveNoDefault(c, kind, sid) ==
  /\ received < MaxCmds
  /\ received' = received + 1
  /\ c \notin closed
  /\ CASE kind \in {"start", "stop", "status"} ->
            /\ cmds' = Append(cmds, [conn |-> c, kind |-> kind, sid |-> sid,
                                     pc |-> "load", w |-> "none", proc |-> NoProc])
            /\ UNCHANGED <<out, sent>>
       [] kind = "unknown" ->
            /\ UNCHANGED <<out, sent, cmds>>
       [] OTHER ->
            /\ out' = Reply(c, FALSE, "Error processing command")
            /\ sent' = sent + 1
            /\ cmds' = cmds
  /\ UNCHANGED <<store, runningServers, procs, closed, routes, res, creation, limiter>>

\* ws.on('message'): decode and dispatch.  start, stop and status run up to
\* their first await (Server.findById); an unknown command (a decoded message
\* whose command is none of the three) and a malformed payload (JSON.parse
\* throws, or reading data.command throws) are answered in the same segment.
\* No statement of the manager closes a connection.
Receive(c, kind, sid) ==
  /\ received < MaxCmds
  /\ received' = received + 1
  /\ c \notin closed
  /\ CASE kind \in {"start", "stop", "status"} ->
            /\ cmds' = Append(cmds, [conn |-> c, kind |-> kind, sid |-> sid,
                                     pc |-> "load", w |-> "none", proc |-> NoProc])
            /\ UNCHANGED <<out, sent>>
       [] kind = "unknown" ->
            /\ out' = Reply(c, FALSE, "Unknown command")
            /\ sent' = sent + 1
            /\ cmds' = cmds
       [] OTHER ->
            /\ out' = Reply(c, FALSE, "Error processing command")
            /\ sent' = sent + 1
            /\ cmds' = cmds
  /\ UNCHANGED <<store, runningServers, procs, closed, routes, res, creation, limiter>>

\* ------------------------------------------------- the child processes
\* The handle spawn() returns and the observers setupProcessHandlers puts on
\* it.  A spawn error is emitted on the next tick, before any other
\* callback: its observer is already waiting for its findById.
\*   st: live, exited (exit reported), errored (error reported)
\*   kills: the calls of kill() on the handle
\*   code, hpc: the observer's argument and position (idle, load, save,
\*     done, threw)
\*   hw: the status the observer's save() is to write, then has written
\*   stopWrote: the status the stop that signalled the handle has written
\*   heldAtKill: the Registry held the handle when kill() was called on it
\*   epc, ew: position and write of the error observer of a process whose
\*     kill() failed (its exit observer is still to come)
\*   args, env: the argument list and the environment given to spawn()
NewProc(sid, outcome) ==
  [sid |-> sid,
   args |-> spawnArgs(store[sid]), env |-> spawnEnv(store[sid]),
   st |-> IF outcome = "spawned" THEN "live" ELSE "errored",
   kills |-> 0, code |-> NoCode,
   hpc |-> IF outcome = "spawned" THEN "idle" ELSE "load",
   hw |-> "none", stopWrote |-> "none", heldAtKill |-> FALSE,
   epc |-> "idle", ew |-> "none"]

\* ------------------------------------------------------- the supervisor
\* startServer with the runningServers.has(serverId) test left out.
StartLoadNoCheck(i, ok, outcome) ==
  /\ i \in CmdIds
  /\ UNCHANGED <<received, closed, routes, res, creation, limiter>>
  /\ cmds[i].kind = "start" /\ cmds[i].pc = "load"
  /\ LET sid == cmds[i].sid
         server == store[sid] IN
     IF ~Resolves(sid, ok) THEN
       /\ Finish(i, FALSE, "Failed to start server")
       /\ UNCHANGED <<store, runningServers, procs>>
     ELSE IF ~server.exists THEN
       /\ Finish(i, FALSE, "Server not found")
       /\ UNCHANGED <<store, runningServers, procs>>
     ELSE
       /\ outcome \in LaunchOutcomes(server)
       /\ CASE outcome = "unsupported" ->
                 /\ Finish(i, FALSE, "Unsupported server type")
                 /\ UNCHANGED <<store, runningServers, procs>>
            [] outcome = "throw" ->
                 /\ Finish(i, FALSE, "Failed to start server")
                 /\ UNCHANGED <<store, runningServers, procs>>
            [] OTHER ->
                 /\ procs' = Append(procs, NewProc(sid, outcome))
                 /\ runningServers' =
                      [runningServers EXCEPT ![sid] = Len(procs) + 1]
                 /\ cmds' = [cmds EXCEPT
                      ![i].pc = "save",
                      ![i].proc = Len(procs) + 1,
                      ![i].w = ModifiedStatus(server.status, "running")]
                 /\ UNCHANGED <<store, out, sent>>

\* startServer, from the result of findById to the await of server.save().
StartLoad(i, ok, outcome) ==
  /\ i \in CmdIds
  /\ UNCHANGED <<received, closed, routes, res, creation, limiter>>
  /\ cmds[i].kind = "start" /\ cmds[i].pc = "load"
  /\ LET sid == cmds[i].sid
         server == store[sid] IN
     IF ~Resolves(sid, ok) THEN
       /\ Finish(i, FALSE, "Failed to start server")
       /\ UNCHANGED <<store, runningServers, procs>>
     ELSE IF ~server.exists THEN
       /\ Finish(i, FALSE, "Server not found")
       /\ UNCHANGED <<store, runningServers, procs>>
     ELSE IF runningServers[sid] # NoProc THEN
       /\ Finish(i, TRUE, "Server is already running")
       /\ UNCHANGED <<store, runningServers, procs>>
     ELSE
       /\ outcome \in LaunchOutcomes(server)
       /\ CASE outcome = "unsupported" ->
                 /\ Finish(i, FALSE, "Unsupported server type")
                 /\ UNCHANGED <<store, runningServers, procs>>
            [] outcome = "throw" ->
                 /\ Finish(i, FALSE, "Failed to start server")
                 /\ UNCHANGED <<store, runningServers, procs>>
            [] OTHER ->
                 /\ procs' = Append(procs, NewProc(sid, outcome))
                 /\ runningServers' =
                      [runningServers EXCEPT ![sid] = Len(procs) + 1]
                 /\ cmds' = [cmds EXCEPT
                      ![i].pc = "save",
                      ![i].proc = Len(procs) + 1,
                      ![i].w = ModifiedStatus(server.status, "running")]
                 /\ UNCHANGED <<store, out, sent>>

\* startServer, from the result of server.save() to the end.
StartSave(i, ok) ==
  /\ i \in CmdIds
  /\ UNCHANGED <<received, closed, routes, res, creation, limiter>>
  /\ cmds[i].kind = "start" /\ cmds[i].pc = "save"
  /\ store' = SaveStatus(cmds[i].sid, cmds[i].w, ok)
  /\ IF ok THEN Finish(i, TRUE, "Server started successfully")
     ELSE Finish(i, FALSE, "Failed to start server")
  /\ UNCHANGED <<runningServers, procs>>

\* stopServer with runningServers.delete(serverId) left out.
StopLoadNoDelete(i, ok) ==
  /\ i \in CmdIds
  /\ UNCHANGED <<received, closed, routes, res, creation, limiter>>
  /\ cmds[i].kind = "stop" /\ cmds[i].pc = "load"
  /\ LET sid == cmds[i].sid
         server == store[sid]
         p == runningServers[sid] IN
     IF ~Resolves(sid, ok) THEN
       /\ Finish(i, FALSE, "Failed to stop server")
       /\ UNCHANGED <<store, runningServers, procs>>
     ELSE IF ~server.exists THEN
       /\ Finish(i, FALSE, "Server not found")
       /\ UNCHANGED <<store, runningServers, procs>>
     ELSE IF p = NoProc THEN
       /\ Finish(i, TRUE, "Server is not running")
       /\ UNCHANGED <<store, runningServers, procs>>
     ELSE
       /\ procs' = [procs EXCEPT ![p].kills = @ + 1,
                                 ![p].heldAtKill = (runningServers[sid] = p)]
       /\ cmds' = [cmds EXCEPT
            ![i].pc = "save",
            ![i].proc = p,
            ![i].w = ModifiedStatus(server.status, "stopped")]
       /\ UNCHANGED <<store, runningServers, out, sent>>

\* stopServer, from the result of findById to the await of server.save():
\* kill the process, then delete the key, then save status stopped.
StopLoad(i, ok) ==
  /\ i \in CmdIds
  /\ UNCHANGED <<received, closed, routes, res, creation, limiter>>
  /\ cmds[i].kind = "stop" /\ cmds[i].pc = "load"
  /\ LET sid == cmds[i].sid
         server == store[sid]
         p == runningServers[sid] IN
     IF ~Resolves(sid, ok) THEN
       /\ Finish(i, FALSE, "Failed to stop server")
       /\ UNCHANGED <<store, runningServers, procs>>
     ELSE IF ~server.exists THEN
       /\ Finish(i, FALSE, "Server not found")
       /\ UNCHANGED <<store, runningServers, procs>>
     ELSE IF p = NoProc THEN
       /\ Finish(i, TRUE, "Server is not running")
       /\ UNCHANGED <<store, runningServers, procs>>
     ELSE
       /\ procs' = [procs EXCEPT ![p].kills = @ + 1,
                                 ![p].heldAtKill = (runningServers[sid] = p)]
       /\ runningServers' = [runningServers EXCEPT ![sid] = NoProc]
       /\ cmds' = [cmds EXCEPT
            ![i].pc = "save",
            ![i].proc = p,
            ![i].w = ModifiedStatus(server.status, "stopped")]
       /\ UNCHANGED <<store, out, sent>>

\* stopServer, from the result of server.save() to the end.
StopSave(i, ok) ==
  /\ i \in CmdIds
  /\ UNCHANGED <<received, closed, routes, res, creation, limiter>>
  /\ cmds[i].kind = "stop" /\ cmds[i].pc = "save"
  /\ store' = SaveStatus(cmds[i].sid, cmds[i].w, ok)
  /\ IF ok THEN Finish(i, TRUE, "Server stopped successfully")
     ELSE Finish(i, FALSE, "Failed to stop server")
  /\ procs' = [procs EXCEPT ![cmds[i].proc].stopWrote =
                               Wrote(cmds[i].sid, cmds[i].w, ok)]
  /\ UNCHANGED runningServers

\* getServerStatus, from the result of findById to the end.
GetStatus(i, ok) ==
  /\ i \in CmdIds
  /\ UNCHANGED <<received, closed, routes, res, creation, limiter>>
  /\ cmds[i].kind = "status" /\ cmds[i].pc = "load"
  /\ LET sid == cmds[i].sid IN
     /\ out' = IF ~Resolves(sid, ok)
               THEN Reply(cmds[i].conn, FALSE, "Failed to get server status")
               ELSE IF ~store[sid].exists
                    THEN Reply(cmds[i].conn, FALSE, "Server not found")
               ELSE StatusReply(cmds[i].conn, runningServers[sid] # NoProc,
                                store[sid])
     /\ sent' = sent + 1
     /\ cmds' = RemoveAt(cmds, i)
  /\ UNCHANGED <<store, runningServers, procs>>

\* ------------------------------------------------------- the observers
\* The exit code a handle reports: 0, or anything that is not === 0 (a
\* non-zero code, or null when a signal ended the process), written 1.
ExitCodes == {0, 1}

\* process.on('exit'), up to its first await (Server.findById).
ProcExit(p, code) ==
  /\ p \in ProcIds
  /\ UNCHANGED <<received, closed, routes, res, creation, limiter>>
  /\ procs[p].st = "live"
  /\ procs' = [procs EXCEPT ![p].st = "exited", ![p].code = code, ![p].hpc = "load"]
  /\ UNCHANGED <<store, runningServers, cmds, out, sent>>

\* The status an observer persists: the error observer failed; the exit
\* observer `code === 0 ? 'stopped' : 'failed'`.
ObservedStatus(pr) ==
  IF pr.st = "errored" THEN "failed"
  ELSE IF pr.code = 0 THEN "stopped" ELSE "failed"

\* An observer (error or exit), from the result of findById to the await of
\* server.save().  A rejected findById, or a null record (server.status of
\* null throws), ends the observer in its catch, which only logs.
ObserverLoad(p, ok) ==
  /\ p \in ProcIds
  /\ UNCHANGED <<received, closed, routes, res, creation, limiter>>
  /\ procs[p].hpc = "load"
  /\ LET server == store[procs[p].sid] IN
     procs' = IF ok /\ server.exists
              THEN [procs EXCEPT
                      ![p].hpc = "save",
                      ![p].hw = ModifiedStatus(server.status, ObservedStatus(procs[p]))]
              ELSE [procs EXCEPT ![p].hpc = "threw"]
  /\ UNCHANGED <<store, runningServers, cmds, out, sent>>

\* An observer, from the result of server.save() to the end: delete the key
\* of the identity.  A rejected save ends the observer in its catch.
ObserverSave(p, ok) ==
  /\ p \in ProcIds
  /\ UNCHANGED <<received, closed, routes, res, creation, limiter>>
  /\ procs[p].hpc = "save"
  /\ LET sid == procs[p].sid IN
     /\ store' = SaveStatus(sid, procs[p].hw, ok)
     /\ procs' = [procs EXCEPT
                    ![p].hpc = IF ok THEN "done" ELSE "threw",
                    ![p].hw = Wrote(sid, procs[p].hw, ok)]
     /\ runningServers' =
          IF ok THEN [runningServers EXCEPT ![sid] = NoProc] ELSE runningServers
  /\ UNCHANGED <<cmds, out, sent>>

\* kill() could not signal the process (the operating system refused): the
\* handle emits error, and process.on('error') runs up to its first await.
\* The process goes on and reports its exit when it ends.  The event is
\* emitted inside kill(); the observer does nothing the rest of the program
\* can see before its findById resolves, so its start is a step of its own.
KillError(p) ==
  /\ p \in ProcIds
  /\ UNCHANGED <<received, closed, routes, res, creation, limiter>>
  /\ procs[p].kills >= 1
  /\ procs[p].st = "live"
  /\ procs[p].epc = "idle"
  /\ procs' = [procs EXCEPT ![p].epc = "load"]
  /\ UNCHANGED <<store, runningServers, cmds, out, sent>>

\* process.on('error') of a process that was spawned, from the result of
\* findById to the await of server.save().
ErrorLoad(p, ok) ==
  /\ p \in ProcIds
  /\ UNCHANGED <<received, closed, routes, res, creation, limiter>>
  /\ procs[p].epc = "load"
  /\ LET server == store[procs[p].sid] IN
     procs' = IF ok /\ server.exists
              THEN [procs EXCEPT
                      ![p].epc = "save",
                      ![p].ew = ModifiedStatus(server.status, "failed")]
              ELSE [procs EXCEPT ![p].epc = "threw"]
  /\ UNCHANGED <<store, runningServers, cmds, out, sent>>

\* process.on('error') of a process that was spawned, from the result of
\* server.save() to the end.
ErrorSave(p, ok) ==
  /\ p \in ProcIds
  /\ UNCHANGED <<received, closed, routes, res, creation, limiter>>
  /\ procs[p].epc = "save"
  /\ LET sid == procs[p].sid IN
     /\ store' = SaveStatus(sid, procs[p].ew, ok)
     /\ procs' = [procs EXCEPT
                    ![p].epc = IF ok THEN "done" ELSE "threw",
                    ![p].ew = Wrote(sid, procs[p].ew, ok)]
     /\ runningServers' =
          IF ok THEN [runningServers EXCEPT ![sid] = NoProc] ELSE runningServers
  /\ UNCHANGED <<cmds, out, sent>>

\* ------------------------------------------------------ the router
RouteIds == 1..Len(routes)

\* The X-Server-Key header of a routed request; "none": no header.
Keys == {"none", "k1", "k2"}

\* The :serverId of a routed request, in pieces as Endpoint is: the uuid of
\* the endpoint, one piece of it, and the _id of the record.
Fragments == { <<"e", "7">>, <<"e">>, <<"s1">> }

\* The id an endpoint ends with (the uuid after /mcp/<owner>/).
EndpointId(s) == SubSeq(Endpoint(s), 3, Len(Endpoint(s)))

\* endpoint: {$regex: serverId}: the pattern occurs somewhere in the endpoint.
RegexMatch(frag, endpoint) ==
  \E k \in 0..(Len(endpoint) - Len(frag)) :
     SubSeq(endpoint, k + 1, k + Len(frag)) = frag

\* The records Server.findOne({owner: userId, endpoint: {$regex: serverId}})
\* can resolve to.
Matching(userId, frag) ==
  { s \in ServerIds : /\ store[s].exists
                      /\ Owner(s) = userId
                      /\ RegexMatch(frag, Endpoint(s)) }

\* findOne casts owner to an ObjectId: a userId that cannot be cast rejects
\* the query with a CastError.
CastableUser(userId) == userId # "bad-id"

\* verifyServerAuth: the request passes when it carries an X-Server-Key
\* header, whatever its value.
verifyServerAuth(key) == key # "none"

\* The response of routed request i, which ends the request.
Respond(i, code) ==
  /\ res' = Response(code)
  /\ routes' = RemoveAt(routes, i)

\* app.post('/mcp/:userId/:serverId'): verifyServerAuth, then the handler up
\* to its first await (Server.findOne).
RouteReceive(userId, frag, key) ==
  /\ received < MaxRequests
  /\ received' = received + 1
  /\ IF verifyServerAuth(key)
     THEN /\ routes' = Append(routes, [userId |-> userId, frag |-> frag, key |-> key,
                                       pc |-> "find", sid |-> "", count |-> 0])
          /\ res' = res
     ELSE /\ res' = Response(401)
          /\ routes' = routes
  /\ UNCHANGED <<store, runningServers, procs, cmds, out, sent, closed, creation, limiter>>

\* The router, from the result of findOne to the await of server.save():
\* the two tests, then requestCount += 1 on the loaded document.
RouteFind(i, ok) ==
  /\ i \in RouteIds
  /\ routes[i].pc = "find"
  /\ LET r == routes[i] IN
     IF ~(ok /\ CastableUser(r.userId)) THEN Respond(i, 500)
     ELSE IF Matching(r.userId, r.frag) = {} THEN Respond(i, 404)
     ELSE \E s \in Matching(r.userId, r.frag) :
            IF store[s].status # "running" THEN Respond(i, 503)
            ELSE IF runningServers[s] = NoProc THEN Respond(i, 503)
            ELSE /\ routes' = [routes EXCEPT ![i].pc = "save", ![i].sid = s,
                                             ![i].count = store[s].requestCount + 1]
                 /\ res' = res
  /\ UNCHANGED <<store, runningServers, procs, cmds, out, received, sent, closed, creation, limiter>>

\* The router, from the result of server.save() to the end.  The save
\* writes the requestCount (and lastActivity) of the loaded document.
RouteSave(i, ok) ==
  /\ i \in RouteIds
  /\ routes[i].pc = "save"
  /\ store' = IF ok /\ store[routes[i].sid].exists
              THEN [store EXCEPT ![routes[i].sid].requestCount = routes[i].count]
              ELSE store
  /\ Respond(i, IF ok THEN 200 ELSE 500)
  /\ UNCHANGED <<runningServers, procs, cmds, out, received, sent, closed, creation, limiter>>

\* ------------------------------------------------ the CRUD boundary
\* The users the backend has authenticated (req.user); the last one has the
\* role admin.
Callers == {"u1", "u2", "admin"}

\* `server.owner.toString() !== req.user.id && req.user.role !== 'admin'`
\* is false.
Authorized(user, s) == Owner(s) = user \/ user = "admin"

\* The part of a CRUD route all routes share: findById(req.params.id), the
\* 404 of a null record, the 403 of the owner check.  0: the route goes on.
Refusal(user, sid) ==
  IF ~Castable(sid) THEN 500
  ELSE IF ~store[sid].exists THEN 404
  ELSE IF ~Authorized(user, sid) THEN 403
  ELSE 0

\* PUT /api/servers/:id/status: load the record, set the status the request
\* names (running or stopped), save.  It does not reach the manager.
PutStatus(user, sid, status) ==
  /\ received < MaxCmds
  /\ received' = received + 1
  /\ IF Refusal(user, sid) # 0
     THEN /\ res' = Response(Refusal(user, sid))
          /\ store' = store
     ELSE /\ res' = Response(200)
          /\ store' = [store EXCEPT ![sid].status = status]
  /\ UNCHANGED <<runningServers, procs, cmds, out, sent, closed, routes, creation, limiter>>

\* DELETE /api/servers/:id: pull the id from user.servers of the owner,
\* remove the record.  It does not reach the manager.
DeleteServer(user, sid) ==
  /\ received < MaxCmds
  /\ received' = received + 1
  /\ IF Refusal(user, sid) # 0
     THEN /\ res' = Response(Refusal(user, sid))
          /\ store' = store
          /\ listed' = listed
     ELSE /\ res' = Response(200)
          /\ store' = [store EXCEPT ![sid].exists = FALSE]
          /\ listed' = listed - 1
  /\ UNCHANGED <<runningServers, procs, cmds, out, sent, closed, routes,
                 created, posts, limiter>>

\* MAX_SERVERS_PER_USER.
MaxServers == 2

PostIds == 1..Len(posts)

\* The response of creation request i, which ends the request.
PostRespond(i, code) ==
  /\ res' = Response(code)
  /\ posts' = RemoveAt(posts, i)

\* The number of records the owner has: the ones of the store and the ones
\* POST has created.
Owned == Cardinality({s \in ServerIds : store[s].exists}) + created

\* POST /api/servers by the owner, up to its first await (User.findById).
PostReceive ==
  /\ received < MaxCmds
  /\ received' = received + 1
  /\ posts' = Append(posts, [pc |-> "user"])
  /\ UNCHANGED <<store, runningServers, procs, cmds, out, sent, closed, routes,
                 res, listed, created, limiter>>

\* POST /api/servers, from the result of User.findById to the await of
\* server.save(): the test of the limit on the loaded user.servers.
PostUser(i, ok) ==
  /\ i \in PostIds
  /\ posts[i].pc = "user"
  /\ IF ~ok THEN PostRespond(i, 500)
     ELSE IF listed >= MaxServers THEN PostRespond(i, 400)
     ELSE /\ posts' = [posts EXCEPT ![i].pc = "save"]
          /\ res' = res
  /\ UNCHANGED <<store, runningServers, procs, cmds, out, received, sent,
                 closed, routes, listed, created, limiter>>

\* POST /api/servers, from the result of server.save() to the await of
\* user.save(): the record exists, its id is pushed on the loaded user.
PostSave(i, ok) ==
  /\ i \in PostIds
  /\ posts[i].pc = "save"
  /\ IF ok
     THEN /\ created' = created + 1
          /\ posts' = [posts EXCEPT ![i].pc = "push"]
          /\ res' = res
     ELSE /\ created' = created
          /\ PostRespond(i, 500)
  /\ UNCHANGED <<store, runningServers, procs, cmds, out, received, sent,
                 closed, routes, listed, limiter>>

\* POST /api/servers, from the result of user.save() to the end.  The save
\* of the user sends the push of the one id.
PostPush(i, ok) ==
  /\ i \in PostIds
  /\ posts[i].pc = "push"
  /\ listed' = IF ok THEN listed + 1 ELSE listed
  /\ PostRespond(i, IF ok THEN 201 ELSE 500)
  /\ UNCHANGED <<store, runningServers, procs, cmds, out, received, sent,
                 closed, routes, created, limiter>>

\* ------------------------------------------------------ the rate limiter
\* MAX_REQUESTS_PER_MINUTE.
maxRequests == 2

LimitIds == 1..Len(limited)

\* The requests of the user that may be less than a minute old: all but
\* those whose timer, set for one minute, has fired.
LastMinute == {j \in LimitIds : limited[j].pc \notin {"decrement", "done"}}

\* rateLimiter, up to its first await (User.findById).  over: with this
\* request the user has sent more than maxRequests within a minute.
RateReceive ==
  /\ Len(limited) < MaxRequests
  /\ limited' = Append(limited,
       [pc |-> "find", count |-> 0, at |-> 0,
        over |-> Cardinality(LastMinute) + 1 > maxRequests])
  /\ UNCHANGED <<store, runningServers, procs, cmds, out, received, sent,
                 closed, routes, res, creation, apiRequestCount>>

\* rateLimiter, from the result of User.findById to the await of
\* user.save(): the count of the loaded document is incremented.  A query
\* that rejects, or finds no user, ends in the catch, which calls next().
RateFind(i, ok) ==
  /\ i \in LimitIds
  /\ limited[i].pc = "find"
  /\ limited' = IF ok
       THEN [limited EXCEPT ![i].pc = "save", ![i].count = apiRequestCount + 1]
       ELSE [limited EXCEPT ![i].pc = "passed"]
  /\ UNCHANGED <<store, runningServers, procs, cmds, out, received, sent,
                 closed, routes, res, creation, apiRequestCount>>

\* rateLimiter, from the result of user.save() to the end: the save has
\* set the stored count to the count of the document; over the limit the
\* request is answered 429 and no timer is set, otherwise the timer is set
\* (at: its place among the timers set so far) and next() is called.
RateSave(i, ok) ==
  /\ i \in LimitIds
  /\ limited[i].pc = "save"
  /\ IF ~ok
     THEN /\ limited' = [limited EXCEPT ![i].pc = "passed"]
          /\ UNCHANGED <<apiRequestCount, res>>
     ELSE /\ apiRequestCount' = limited[i].count
          /\ IF limited[i].count > maxRequests
             THEN /\ limited' = [limited EXCEPT ![i].pc = "rejected"]
                  /\ res' = Response(429)
             ELSE /\ limited' = [limited EXCEPT
                       ![i].pc = "timer",
                       ![i].at = 1 + Cardinality({j \in LimitIds :
                                                   limited[j].at > 0})]
                  /\ res' = res
  /\ UNCHANGED <<store, runningServers, procs, cmds, out, received, sent,
                 closed, routes, creation>>

\* The callback of setTimeout, one minute after the timer was set, up to
\* its await of user.save(): the count of the document the request loaded
\* is decremented.  Timers of one delay fire in the order they were set.
RateTimer(i) ==
  /\ i \in LimitIds
  /\ limited[i].pc = "timer"
  /\ \A j \in LimitIds : limited[j].pc = "timer" => limited[j].at >= limited[i].at
  /\ limited' = [limited EXCEPT ![i].pc = "decrement", ![i].count = @ - 1]
  /\ UNCHANGED <<store, runningServers, procs, cmds, out, received, sent,
                 closed, routes, res, creation, apiRequestCount>>

\* The callback of setTimeout, from the result of user.save() to its end.
RateTimerSave(i, ok) ==
  /\ i \in LimitIds
  /\ limited[i].pc = "decrement"
  /\ apiRequestCount' = IF ok THEN limited[i].count ELSE apiRequestCount
  /\ limited' = [limited EXCEPT ![i].pc = "done"]
  /\ UNCHANGED <<store, runningServers, procs, cmds, out, received, sent,
                 closed, routes, res, creation>>

\* ServerSchema.pre('save') of the backend model when apiKeys is modified:
\* every value of apiKeys is replaced by its encryption.
PreSave(apiKeys) ==
  [n \in KeyNames |-> IF apiKeys[n] = Unset THEN Unset ELSE Encrypt(apiKeys[n])]

\* PUT /api/servers/:id/apikey: load the record, assign apiKeys a copy with
\* the plaintext value under the name, save (the pre-save hook runs).
PutApiKey(user, sid, name, value) ==
  /\ received < MaxCmds
  /\ received' = received + 1
  /\ IF Refusal(user, sid) # 0
     THEN /\ res' = Response(Refusal(user, sid))
          /\ store' = store
     ELSE /\ res' = Response(200)
          /\ store' = [store EXCEPT ![sid].apiKeys =
                         PreSave([@ EXCEPT ![name] = [plain |-> value, layers |-> 0]])]
  /\ UNCHANGED <<runningServers, procs, cmds, out, sent, closed, routes, creation, limiter>>

\* --------------------------------------------------- the specifications
CmdKinds == {"start", "stop", "status", "unknown", "malformed"}

\* What the switch of startServer can come to.
Outcomes == SpawnOutcomes \cup {"throw", "unsupported"}

\* The supervisor and the observers: every segment that follows an await.
SupervisorNext ==
  \/ \E i \in 1..MaxCmds, ok \in BOOLEAN,
        o \in Outcomes : StartLoad(i, ok, o)
  \/ \E i \in 1..MaxCmds, ok \in BOOLEAN : StartSave(i, ok)
  \/ \E i \in 1..MaxCmds, ok \in BOOLEAN : StopLoad(i, ok)
  \/ \E i \in 1..MaxCmds, ok \in BOOLEAN : StopSave(i, ok)
  \/ \E i \in 1..MaxCmds, ok \in BOOLEAN : GetStatus(i, ok)
  \/ \E p \in 1..MaxCmds, code \in ExitCodes : ProcExit(p, code)
  \/ \E p \in 1..MaxCmds, ok \in BOOLEAN : ObserverLoad(p, ok)
  \/ \E p \in 1..MaxCmds, ok \in BOOLEAN : ObserverSave(p, ok)

\* The manager: command channel, supervisor, observers.
ManagerNext ==
  \/ \E c \in Conns, kind \in CmdKinds, sid \in ServerIds : Receive(c, kind, sid)
  \/ SupervisorNext

\* The manager with every command on one connection.
OneConnNext ==
  \/ \E kind \in CmdKinds, sid \in ServerIds : Receive("c1", kind, sid)
  \/ SupervisorNext

\* The manager with a store that answers every request.
HealthyNext ==
  \/ \E c \in Conns, kind \in CmdKinds, sid \in ServerIds : Receive(c, kind, sid)
  \/ \E i \in 1..MaxCmds, o \in Outcomes : StartLoad(i, TRUE, o)
  \/ \E i \in 1..MaxCmds : StartSave(i, TRUE)
  \/ \E i \in 1..MaxCmds : StopLoad(i, TRUE)
  \/ \E i \in 1..MaxCmds : StopSave(i, TRUE)
  \/ \E i \in 1..MaxCmds : GetStatus(i, TRUE)
  \/ \E p \in 1..MaxCmds, code \in ExitCodes : ProcExit(p, code)
  \/ \E p \in 1..MaxCmds : ObserverLoad(p, TRUE)
  \/ \E p \in 1..MaxCmds : ObserverSave(p, TRUE)

\* The backend routes that write the records the manager reads.
BoundaryNext ==
  \/ \E user \in Callers, sid \in ServerIds, status \in {"running", "stopped"} :
        PutStatus(user, sid, status)
  \/ \E user \in Callers, sid \in ServerIds : DeleteServer(user, sid)

\* The backend route that writes credentials.
CredentialNext ==
  \E user \in Callers, sid \in ServerIds, name \in KeyNames, value \in Plaintexts :
     PutApiKey(user, sid, name, value)

\* The request router of the manager.
RouterNext ==
  \/ \E userId \in UserIds, frag \in Fragments, key \in Keys :
        RouteReceive(userId, frag, key)
  \/ \E i \in 1..MaxRequests, ok \in BOOLEAN : RouteFind(i, ok)
  \/ \E i \in 1..MaxRequests, ok \in BOOLEAN : RouteSave(i, ok)

\* The error observer of a process that kill() could not signal.
KillErrorNext ==
  \/ \E p \in 1..MaxCmds : KillError(p)
  \/ \E p \in 1..MaxCmds, ok \in BOOLEAN : ErrorLoad(p, ok)
  \/ \E p \in 1..MaxCmds, ok \in BOOLEAN : ErrorSave(p, ok)

\* The backend route that creates records.
CreationNext ==
  \/ PostReceive
  \/ \E i \in 1..MaxCmds, ok \in BOOLEAN : PostUser(i, ok)
  \/ \E i \in 1..MaxCmds, ok \in BOOLEAN : PostSave(i, ok)
  \/ \E i \in 1..MaxCmds, ok \in BOOLEAN : PostPush(i, ok)

\* The rate limiter of the backend.
LimiterNext ==
  \/ RateReceive
  \/ \E i \in 1..MaxRequests, ok \in BOOLEAN : RateFind(i, ok)
  \/ \E i \in 1..MaxRequests, ok \in BOOLEAN : RateSave(i, ok)
  \/ \E i \in 1..MaxRequests : RateTimer(i)
  \/ \E i \in 1..MaxRequests, ok \in BOOLEAN : RateTimerSave(i, ok)

\* The rate limiter with a store that answers every request.
HealthyLimiterNext ==
  \/ RateReceive
  \/ \E i \in 1..MaxRequests : RateFind(i, TRUE)
  \/ \E i \in 1..MaxRequests : RateSave(i, TRUE)
  \/ \E i \in 1..MaxRequests : RateTimer(i)
  \/ \E i \in 1..MaxRequests : RateTimerSave(i, TRUE)

\* The manager (without its router) and the backend.
Next ==
  ManagerNext \/ BoundaryNext \/ CredentialNext \/ KillErrorNext \/ CreationNext

\* The manager and the CRUD boundary on the same store.
Spec == Init /\ [][Next]_vars

\* The manager alone, with no request to the CRUD boundary.
ManagerSpec == Init /\ [][ManagerNext]_vars

\* The manager alone, no store operation failing.
HealthySpec == Init /\ [][HealthyNext]_vars

\* The commands that make a record servable, on one connection, with a
\* store that answers every request.
ServingNext ==
  \/ \E kind \in {"start", "stop"} : Receive("c1", kind, "s1")
  \/ \E i \in 1..MaxCmds, o \in Outcomes : StartLoad(i, TRUE, o)
  \/ \E i \in 1..MaxCmds : StartSave(i, TRUE)
  \/ \E i \in 1..MaxCmds : StopLoad(i, TRUE)
  \/ \E i \in 1..MaxCmds : StopSave(i, TRUE)
  \/ \E p \in 1..MaxCmds, code \in ExitCodes : ProcExit(p, code)
  \/ \E p \in 1..MaxCmds : ObserverLoad(p, TRUE)
  \/ \E p \in 1..MaxCmds : ObserverSave(p, TRUE)

\* The router of the manager, next to the commands that start and stop.
RouterSpec == Init /\ [][ServingNext \/ RouterNext]_vars

\* The CRUD boundary alone: the routes that save a record of the backend.
CredentialSpec == Init /\ [][CredentialNext \/ BoundaryNext]_vars

\* The manager on one connection, with processes that kill() may fail to
\* signal.
TerminationSpec == Init /\ [][OneConnNext \/ KillErrorNext]_vars

\* The backend alone: creation and the routes that save or remove a record.
LimitSpec == Init /\ [][CreationNext \/ BoundaryNext]_vars

\* The rate limiter alone, for the requests of one user.
LimiterSpec == Init /\ [][LimiterNext]_vars

\* The rate limiter alone, no store operation failing.
HealthyLimiterSpec == Init /\ [][HealthyLimiterNext]_vars

\* The start and stop commands on a record of any shape a launcher can meet.
LauncherSpec == LauncherInit /\ [][ServingNext]_vars

\* The manager alone, serving one connection.  The handlers use the
\* connection for nothing but the destination of the reply.
OneConnSpec == Init /\ [][OneConnNext]_vars

\* ------------------------------------------------------------ properties
\* The user at the other end of a connection of the command channel: the
\* owner of the record on c1, another user (no admin) on c2.  The manager
\* learns nothing about the peer when it accepts the connection.
Caller(c) == IF c = "c1" THEN "u1" ELSE "u2"

\* Command i is a start that has set its Registry entry and waits for its
\* save(), and this step sends its success reply.
StartReplies(i) ==
  /\ cmds[i].kind = "start" /\ cmds[i].pc = "save"
  /\ cmds' = RemoveAt(cmds, i)
  /\ out' = Reply(cmds[i].conn, TRUE, "Server started successfully")

\* C1: at the moment the success reply of a start is sent, the Registry
\* holds an entry for the identity and the entry is the handle the launcher
\* returned to this start, whatever stop commands and observers ran between.
C1_StartReplyHoldsHandle ==
  [][\A i \in CmdIds :
       StartReplies(i) => runningServers'[cmds[i].sid] = cmds[i].proc]_vars

\* No step puts another handle in the place of a Registry entry, and a
\* process is spawned only for an identity that has no entry.
NoSecondSpawn ==
  /\ \A s \in ServerIds :
       runningServers[s] # NoProc
       => runningServers'[s] \in {runningServers[s], NoProc}
  /\ Len(procs') > Len(procs)
       => /\ Len(procs') = Len(procs) + 1
          /\ runningServers[procs'[Len(procs')].sid] = NoProc

\* The step answers command i "already running" and changes nothing else.
AlreadyRunningReply(i) ==
  /\ out' = Reply(cmds[i].conn, TRUE, "Server is already running")
  /\ procs' = procs
  /\ runningServers' = runningServers

NotRunningReply(i) ==
  /\ out' = Reply(cmds[i].conn, TRUE, "Server is not running")
  /\ procs' = procs
  /\ runningServers' = runningServers

\* No handle is signalled twice.
OneSignal == \A p \in DOMAIN procs' : procs'[p].kills <= 1

C4_OneStatusWrite ==
  \A p \in ProcIds :
    ~ ( /\ procs[p].kills >= 1
        /\ procs[p].stopWrote # "none"
        /\ procs[p].hpc = "done" /\ procs[p].hw # "none" )

\* C5: once a stop has replied success and every callback has finished (no
\* command in flight, every observer ended, the exit observer of the
\* signalled process having reported a code that is not zero), the persisted
\* status is stopped.
C5_StoppedAfterStop ==
  \A p \in ProcIds :
    ( /\ out.message = "Server stopped successfully"
      /\ cmds = << >>
      /\ \A q \in ProcIds : procs[q].hpc \in {"done", "threw"}
      /\ procs[p].kills >= 1 /\ procs[p].st = "exited" /\ procs[p].code # 0 )
    => store[procs[p].sid].status = "stopped"

\* C6: the Registry has an entry for an identity if and only if a process
\* spawned for it has reported neither exit nor error.
C6_EntryIffLive ==
  \A s \in ServerIds :
    runningServers[s] # NoProc
    <=> \E p \in ProcIds : procs[p].sid = s /\ procs[p].st = "live"

\* C7: once the observer of a process that ended with no stop signalled to it
\* has run to its end, the Registry entry of the process is removed and the
\* status the observer reports is persisted: nothing else would do either
\* without a further command.
C7_SelfTerminationHandled ==
  \A p \in ProcIds :
    ( /\ procs[p].st # "live" /\ procs[p].kills = 0
      /\ procs[p].hpc \notin {"load", "save"} )
    => /\ runningServers[procs[p].sid] # p
       /\ procs[p].hpc = "done"

\* C8: a start whose launch fails (the launcher throws, or the type has no
\* launcher) sets the persisted status to failed, leaves the Registry as it
\* was and replies failure.
C8_LaunchFailurePersisted ==
  [][\A i \in CmdIds, o \in {"throw", "unsupported"} :
       ( /\ StartLoad(i, TRUE, o)
         /\ store[cmds[i].sid].exists
         /\ runningServers[cmds[i].sid] = NoProc )
       => /\ store'[cmds[i].sid].status = "failed"
          /\ runningServers' = runningServers
          /\ ~out'.success]_vars

\* C9: the persisted status changes only in a step of the supervisor (a
\* start or a stop ends its save, or an observer ends its save), and it
\* becomes running only when a process was spawned for the identity.
C9_StatusOnlyBySupervisor ==
  [][\A s \in ServerIds :
       store'[s].status # store[s].status
       => /\ cmds' # cmds \/ procs' # procs
          /\ store'[s].status = "running"
               => \E p \in ProcIds : procs[p].sid = s]_vars

\* C10: a reply is sent on a connection only when no command received
\* earlier on that connection is still waiting for its reply.
C10_ReplyOrder ==
  [][/\ Len(cmds') < Len(cmds)
          => \E i \in CmdIds :
               /\ cmds' = RemoveAt(cmds, i) /\ out'.conn = cmds[i].conn
               /\ \A j \in 1..(i - 1) : cmds[j].conn # cmds[i].conn
     /\ (received' = received + 1 /\ cmds' = cmds /\ store' = store)
          => \A j \in CmdIds : cmds[j].conn # out'.conn]_vars

\* C11: a payload that cannot be decoded is answered by one message, the
\* reply success false "Error processing command", on its connection; the
\* connection is not closed (it takes the next command), and the Registry,
\* the processes, the records and the commands in flight are unchanged.
C11_MalformedPayload ==
  [][\A c \in Conns, sid \in ServerIds :
       Receive(c, "malformed", sid)
       => /\ out' = Reply(c, FALSE, "Error processing command")
          /\ sent' = sent + 1
          /\ c \notin closed'
          /\ UNCHANGED <<store, runningServers, procs, cmds>>]_vars

\* The error reply is the last message on a connection that has a valid
\* command in flight and is open.
C11_Witness ==
  /\ out = Reply(out.conn, FALSE, "Error processing command")
  /\ out.conn \notin closed
  /\ \E i \in CmdIds : cmds[i].conn = out.conn
  /\ sent >= 1

\* C12: a decoded message whose command is none of start, stop, status is
\* answered success false "Unknown command"; the connection is not closed and
\* the Registry, the processes and the records are unchanged.
C12_UnknownCommand ==
  [][\A c \in Conns, sid \in ServerIds :
       Receive(c, "unknown", sid)
       => /\ out' = Reply(c, FALSE, "Unknown command")
          /\ sent' = sent + 1
          /\ c \notin closed'
          /\ UNCHANGED <<store, runningServers, procs, cmds>>]_vars

\* "Unknown command" is the last message while a process is in the Registry.
C12_Witness ==
  /\ out = Reply(out.conn, FALSE, "Unknown command")
  /\ out.conn \notin closed
  /\ \E s \in ServerIds : runningServers[s] # NoProc

\* C13: a start, stop or status command whose serverId matches no record is
\* answered success false "Server not found", and the Registry, the processes
\* and the records are unchanged.
C13_NotFound ==
  [][\A i \in CmdIds :
       ( /\ cmds[i].pc = "load"
         /\ ~store[cmds[i].sid].exists
         /\ cmds' = RemoveAt(cmds, i)
         /\ sent' = sent + 1 )
       => /\ out' = Reply(cmds[i].conn, FALSE, "Server not found")
          /\ UNCHANGED <<store, runningServers, procs>>]_vars

\* C14: the reply to a status command for a known server carries a liveness
\* that is true exactly when the Registry has an entry for the identity, the
\* persisted status of the record and its requestCount; the command changes
\* neither the Registry nor the record.  The persisted status is read from
\* the status field of the reply, or from a field persistedStatus.
C14_StatusMerge ==
  [][\A i \in CmdIds :
       ( /\ GetStatus(i, TRUE)
         /\ Castable(cmds[i].sid)
         /\ store[cmds[i].sid].exists )
       => /\ out'.success
          /\ out'.status = "running" <=> runningServers[cmds[i].sid] # NoProc
          /\ out'.requestCount = store[cmds[i].sid].requestCount
          /\ \/ out'.status = store[cmds[i].sid].status
             \/ /\ "persistedStatus" \in DOMAIN out'
                /\ out'.persistedStatus = store[cmds[i].sid].status
          /\ UNCHANGED <<store, runningServers, procs>>]_vars
\* C15: the router answers 404 when no record matches, 503 (changing no
\* counter) when a record matches but its persisted status is not running or
\* the Registry holds no entry for it, and goes on to count the request and
\* answer success only when both hold; requestCount changes, and a success
\* is answered, only by a request that passed both tests.
C15_RouterAnswers ==
  [][/\ \A i \in RouteIds :
          RouteFind(i, TRUE)
          => LET M == Matching(routes[i].userId, routes[i].frag)
                 Ready == { s \in M : /\ store[s].status = "running"
                                      /\ runningServers[s] # NoProc }
             IN /\ M = {} => res' = Response(404) /\ routes' = RemoveAt(routes, i)
                /\ M # {} /\ Ready = {}
                     => res' = Response(503) /\ routes' = RemoveAt(routes, i)
                /\ Len(routes') = Len(routes) => routes'[i].sid \in Ready
                /\ store' = store
     /\ \A s \in ServerIds :
          store'[s].requestCount # store[s].requestCount
          => \E i \in RouteIds : /\ routes[i].pc = "save" /\ routes[i].sid = s
                                 /\ store'[s].requestCount = store[s].requestCount + 1
                                 /\ res' = Response(200)]_vars

\* C16: a routed request that the router accepts (it passed every test and
\* is being counted and answered with success) presented the X-Server-Key
\* stored for the record it was resolved to.
C16_KeyAuthenticates ==
  \A i \in RouteIds :
     routes[i].pc = "save" => routes[i].key = ServerKey(routes[i].sid)

\* C17: every stored credential is encrypted exactly once: decrypting the
\* stored value once yields a plaintext, the one last written for the name.
C17_EncryptedOnce ==
  \A s \in ServerIds, n \in KeyNames :
     store[s].apiKeys[n] # Unset
     => Decrypt(store[s].apiKeys[n]) = [plain |-> store[s].apiKeys[n].plain, layers |-> 0]

\* C18: a start that has spawned, or a stop that has signalled, and whose
\* save of the status ends (with success or with a failure of the store)
\* replies with success.
C18_SaveFailureNotSurfaced ==
  [][\A i \in CmdIds :
       /\ (\E ok \in BOOLEAN : StartSave(i, ok))
            => out' = Reply(cmds[i].conn, TRUE, "Server started successfully")
       /\ (\E ok \in BOOLEAN : StopSave(i, ok))
            => out' = Reply(cmds[i].conn, TRUE, "Server stopped successfully")]_vars

\* C19: a start of a custom-type record that exists and has no Registry
\* entry, with the store answering, sets the Registry entry of the identity
\* (the launcher returned a process) and goes on to persist running.
C19_CustomStarts ==
  [][\A i \in CmdIds :
       ( /\ \E o \in Outcomes : StartLoad(i, TRUE, o)
         /\ store[cmds[i].sid].exists
         /\ store[cmds[i].sid].type = "custom"
         /\ runningServers[cmds[i].sid] = NoProc )
       => /\ runningServers'[cmds[i].sid] # NoProc
          /\ cmds'[i].pc = "save"
          /\ cmds'[i].w = "running"]_vars

\* C20: an operation on an existing record by a caller who neither owns it
\* nor is an admin is refused and changes nothing: a CRUD route answers 403
\* and leaves the record as it is; a start, stop or status command replies
\* with a failure and leaves the record, the Registry and the processes as
\* they are.
C20_NonOwnerRejected ==
  [][/\ \A user \in Callers, sid \in ServerIds :
          ( /\ store[sid].exists
            /\ ~Authorized(user, sid)
            /\ \/ \E status \in {"running", "stopped"} : PutStatus(user, sid, status)
               \/ DeleteServer(user, sid)
               \/ \E name \in KeyNames, value \in Plaintexts :
                     PutApiKey(user, sid, name, value) )
          => res' = Response(403) /\ store' = store
     /\ \A i \in CmdIds :
          ( /\ store[cmds[i].sid].exists
            /\ ~Authorized(Caller(cmds[i].conn), cmds[i].sid)
            /\ \E ok \in BOOLEAN :
                  \/ \E o \in Outcomes : StartLoad(i, ok, o)
                  \/ StopLoad(i, ok)
                  \/ GetStatus(i, ok) )
          => /\ ~out'.success
             /\ out'.conn = cmds[i].conn
             /\ UNCHANGED <<store, runningServers, procs>>]_vars

\* C21: every process that is live and that no stop has signalled is held by
\* the Registry entry of its identity.
C21_LiveProcessRegistered ==
  \A p \in ProcIds :
     (procs[p].st = "live" /\ procs[p].kills = 0)
     => runningServers[procs[p].sid] = p

\* C22 (as the code does it): a stop that finds the entry signals the
\* process while the Registry still holds it, removes the entry in the same
\* uninterrupted segment (before any other handler can run), writes nothing
\* to the store in that segment, and goes on to persist stopped.
C22_StopOrder ==
  [][\A i \in CmdIds :
       ( /\ cmds[i].kind = "stop" /\ cmds[i].pc = "load"
         /\ runningServers[cmds[i].sid] # NoProc
         /\ Len(cmds') = Len(cmds)
         /\ \E ok \in BOOLEAN : StopLoad(i, ok) )
       => LET p == runningServers[cmds[i].sid] IN
          /\ procs'[p].kills = procs[p].kills + 1
          /\ procs'[p].heldAtKill
          /\ runningServers'[cmds[i].sid] = NoProc
          /\ store' = store
          /\ cmds'[i].pc = "save"
          /\ cmds'[i].w \in {"stopped", "none"}]_vars

\* A stop has signalled a live process, removed its entry and waits for its
\* save of stopped.
C22_Witness ==
  \E i \in CmdIds :
     /\ cmds[i].kind = "stop" /\ cmds[i].pc = "save" /\ cmds[i].w = "stopped"
     /\ procs[cmds[i].proc].kills = 1
     /\ procs[cmds[i].proc].st = "live"
     /\ runningServers[cmds[i].sid] = NoProc

\* C22 as stated: the Registry entry is never still present at the moment
\* the process is signalled.
C22_AsStated ==
  \A p \in ProcIds : procs[p].kills >= 1 => ~procs[p].heldAtKill

\* C23: an observer that ends, with or without a failure of the store, leaves
\* no Registry entry holding its process; a start or a stop whose save ends,
\* with or without a failure, leaves the Registry as it is.
C23_RegistryTransitionKept ==
  [][/\ \A p \in ProcIds :
          ( /\ \E ok \in BOOLEAN : ObserverLoad(p, ok) \/ ObserverSave(p, ok)
            /\ procs'[p].hpc \in {"done", "threw"} )
          => runningServers'[procs[p].sid] # p
     /\ \A i \in CmdIds :
          (\E ok \in BOOLEAN : StartSave(i, ok) \/ StopSave(i, ok))
          => runningServers' = runningServers]_vars

\* C24: in every quiescent state (no command in flight, no observer of a
\* process of the identity between its event and its end), the persisted
\* status is running if and only if the Registry holds an entry for the
\* identity.
C24_StatusFollowsRegistry ==
  \A s \in ServerIds :
     ( /\ cmds = << >>
       /\ store[s].exists
       /\ \A p \in ProcIds : procs[p].sid = s => procs[p].hpc \notin {"load", "save"} )
     => (store[s].status = "running" <=> runningServers[s] # NoProc)

\* C25: the observers of one process remove the Registry key at most once
\* and write a terminal status at most once between them.
C25_TerminationHandledOnce ==
  \A p \in ProcIds :
     /\ ~ (procs[p].hpc = "done" /\ procs[p].epc = "done")
     /\ ~ ( /\ procs[p].hpc \in {"done", "threw"} /\ procs[p].hw # "none"
            /\ procs[p].epc \in {"done", "threw"} /\ procs[p].ew # "none" )

\* C26: no step leaves a Registry entry whose record is not in the store,
\* and a stop that resumes (the store answering) for an identity with a
\* Registry entry signals the process and removes the entry.
C26_EntryHasRecord ==
  [][/\ \A s \in ServerIds : runningServers'[s] # NoProc => store'[s].exists
     /\ \A i \in CmdIds :
          (StopLoad(i, TRUE) /\ runningServers[cmds[i].sid] # NoProc)
          => LET p == runningServers[cmds[i].sid] IN
             /\ procs'[p].kills = procs[p].kills + 1
             /\ runningServers'[cmds[i].sid] = NoProc]_vars

\* C27: the number of records of the owner never exceeds the maximum.
C27_LimitHolds == Owned <= MaxServers

\* C28: no step decreases the persisted requestCount of a record.
C28_RequestCountMonotonic ==
  [][\A s \in ServerIds :
       store'[s].requestCount >= store[s].requestCount]_vars

\* C29: a routed request that passed the tests of the router is accounted to
\* the record it names exactly: its serverId is the _id of the record or the
\* whole id of the record's endpoint, and its userId is the record's owner.
C29_ExactIdentity ==
  \A i \in RouteIds :
     routes[i].pc = "save"
     => /\ \/ routes[i].frag = <<routes[i].sid>>
           \/ routes[i].frag = EndpointId(routes[i].sid)
        /\ routes[i].userId = Owner(routes[i].sid)

\* C30: a start of a custom-type record with at least one credential, the
\* store answering and the Registry holding no entry, launches the server
\* whatever the credentials are, and every credential stored as the
\* encryption of a plaintext is handed to the child as that plaintext.
C30_BadCredentialTolerated ==
  [][\A i \in CmdIds :
       ( /\ \E o \in Outcomes : StartLoad(i, TRUE, o)
         /\ store[cmds[i].sid].exists
         /\ store[cmds[i].sid].type = "custom"
         /\ \E n \in KeyNames : store[cmds[i].sid].apiKeys[n] # Unset
         /\ runningServers[cmds[i].sid] = NoProc )
       => LET server == store[cmds[i].sid] IN
          /\ runningServers'[cmds[i].sid] # NoProc
          /\ \A n \in DOMAIN decryptedKeys(server) :
               server.apiKeys[n].layers = 1
               => decryptedKeys(server)[n] = Decrypt(server.apiKeys[n])]_vars

\* C31: a start of a custom-type record, the store answering and the
\* Registry holding no entry, spawns a child whose environment gives each
\* name the value of the last of base environment, config environment and
\* decrypted credentials that defines it.
C31_EnvPrecedence ==
  [][\A i \in CmdIds :
       ( /\ cmds[i].kind = "start" /\ cmds[i].pc = "load"
         /\ store[cmds[i].sid].exists
         /\ store[cmds[i].sid].type = "custom"
         /\ runningServers[cmds[i].sid] = NoProc
         /\ \E o \in Outcomes : StartLoad(i, TRUE, o) )
       => LET server == store[cmds[i].sid]
              credentials ==
                [n \in {k \in KeyNames : server.apiKeys[k] # Unset} |->
                   Decrypt(server.apiKeys[n]).plain] IN
          /\ runningServers'[cmds[i].sid] # NoProc
          /\ procs'[runningServers'[cmds[i].sid]].env
               = Merge(Merge(BaseEnv, server.env), credentials)]_vars

\* C32: a start of a filesystem-type record whose config has no
\* allowedDirectories or a list of roots in it, the Registry holding no
\* entry, can launch the helper, and when spawn returns
\* a handle the helper was given, after its fixed arguments, the one root
\* /tmp if config has no allowedDirectories and otherwise exactly the roots
\* of allowedDirectories, and the handle is in the Registry.
C32_DefaultRoot ==
  [][\A i \in CmdIds :
       ( /\ cmds[i].kind = "start" /\ cmds[i].pc = "load"
         /\ store[cmds[i].sid].exists
         /\ store[cmds[i].sid].type = "filesystem"
         /\ store[cmds[i].sid].cfg # "bad"
         /\ runningServers[cmds[i].sid] = NoProc )
       => LET server == store[cmds[i].sid]
              sid == cmds[i].sid IN
          /\ "spawned" \in LaunchOutcomes(server)
          /\ (\E o \in SpawnOutcomes : StartLoad(i, TRUE, o))
             => /\ runningServers'[sid] # NoProc
                /\ procs'[runningServers'[sid]].args
                     = <<"-y", "@modelcontextprotocol/server-filesystem">>
                       \o (IF server.cfg = "set" THEN server.roots
                           ELSE <<"/tmp">>)]_vars

\* C33: the stored counter of the rate limiter is never negative; when no
\* request is inside the limiter and no decrement is under way it equals the
\* number of requests counted whose minute has not passed (zero once every
\* timer has fired); and a request is rejected only if the user has sent
\* more than maxRequests within a minute.
C33_CounterIsWindow ==
  /\ apiRequestCount >= 0
  /\ (\A i \in LimitIds : limited[i].pc \notin {"find", "save", "decrement"})
     => apiRequestCount
          = Cardinality({i \in LimitIds : limited[i].pc = "timer"})
  /\ \A i \in LimitIds :
       limited[i].pc = "rejected" => \E j \in LimitIds : limited[j].over

====
